---- MODULE Spec2Model ----
(***************************************************************************)
(* Model of the authenticated request gateway of the admin dashboard       *)
(* (src/lib/axios-instance.ts): an axios instance whose request            *)
(* interceptor attaches the session's access token and whose response      *)
(* interceptor recovers from a 401 by a shared session refresh, one retry  *)
(* per request, and a latched sign-out.                                    *)
(*                                                                         *)
(* The JavaScript runtime is single threaded.  One action of this module   *)
(* is one macrotask together with the microtasks it triggers: a handler    *)
(* runs from the event that wakes it up to its next suspension on the      *)
(* network (getSession, the HTTP send, signOut).  The continuations of the *)
(* handlers that await the shared refresh promise are microtasks of the    *)
(* settlement of that promise, and run in the order in which the handlers  *)
(* subscribed.                                                             *)
(***************************************************************************)
EXTENDS Integers, Sequences, FiniteSets, TLC

\* Number of requests the callers issue through the gateway.
NumReq == 3

Req == 1..NumReq

\* Access tokens the session provider can hand out; NoTok is "no token".
Tokens == {"t1", "t2"}
NoTok == "none"

\* Values getSession can resolve with: null, a session without a token, a
\* good session, a session that carries a token and an error marker.
NullSession == [kind |-> "null", accessToken |-> NoTok, error |-> FALSE]
Session(t, e) == [kind |-> "session", accessToken |-> t, error |-> e]
Sessions ==
  {NullSession, Session(NoTok, FALSE), Session("t1", TRUE)}
    \cup {Session(t, FALSE) : t \in Tokens}

\* A rejected getSession promise, and the value of a promise not yet settled.
Rejected == [kind |-> "rejected", accessToken |-> NoTok, error |-> FALSE]
Unsettled == [kind |-> "unsettled", accessToken |-> NoTok, error |-> FALSE]
SessionOutcomes == Sessions \cup {Rejected}

\* What the wire answers to a send: a 2xx, a 401, a 500, or no response at
\* all (network error, timeout).
ErrorKinds == {"e401", "e500", "net"}

\* What a caller's promise settles with.  att is the attempt (1 = original
\* send, 2 = re-issue) whose handler produced the value.
NoResult == [kind |-> "none", att |-> 0]
Outcome(k, a) == [kind |-> k, att |-> a]

VARIABLES
  hasWindow,             \* typeof window !== 'undefined'
  refreshSessionPromise, \* 0 = null, else index into refreshOps
  isSigningOut,          \* the sign-out latch
  refreshOps,            \* the promises created by getRefreshedSession
  pc,                    \* where each request's handler is suspended
  retry,                 \* originalRequest._retry
  issued,                \* calls of axiosInstance(config) for the request
  hdr,                   \* config.headers.Authorization
  resp,                  \* the answers of the wire to the request's sends
  awaited,               \* the promise getRefreshedSession returned to it
  seen,                  \* the value its await of that promise produced
  result,                \* what the caller's promise settled with
  invoked,               \* signOut() calls made by the request's handler
  navigated,             \* window.location.href assignments made by it
  subscriptions,         \* the subscriptions page and its plan modal
  review,                \* the testimonials page and the stored testimonials
  revenue,               \* the revenue page and the purchases it loaded
  dashboard,             \* the dashboard page and the users the server stores
  support,               \* the support page and the tickets the server stores
  settings               \* the settings page and its change-password dialog

gatewayVars == <<hasWindow, refreshSessionPromise, isSigningOut, refreshOps,
                 pc, retry, issued, hdr, resp, awaited, seen, result,
                 invoked, navigated>>

pageVars == <<subscriptions, review, revenue, dashboard, support, settings>>

vars == <<gatewayVars, pageVars>>

\* The program state as one record, so that the handlers below are functions
\* from state to state.
Cur ==
  [hasWindow |-> hasWindow, refreshSessionPromise |-> refreshSessionPromise,
   isSigningOut |-> isSigningOut, refreshOps |-> refreshOps, pc |-> pc,
   retry |-> retry, issued |-> issued, hdr |-> hdr, resp |-> resp,
   awaited |-> awaited, seen |-> seen, result |-> result,
   invoked |-> invoked, navigated |-> navigated]

Commit(st) ==
  /\ hasWindow' = st.hasWindow
  /\ refreshSessionPromise' = st.refreshSessionPromise
  /\ isSigningOut' = st.isSigningOut
  /\ refreshOps' = st.refreshOps
  /\ pc' = st.pc
  /\ retry' = st.retry
  /\ issued' = st.issued
  /\ hdr' = st.hdr
  /\ resp' = st.resp
  /\ awaited' = st.awaited
  /\ seen' = st.seen
  /\ result' = st.result
  /\ invoked' = st.invoked
  /\ navigated' = st.navigated
  /\ UNCHANGED pageVars

GatewayInit ==
  /\ hasWindow \in BOOLEAN
  /\ refreshSessionPromise = 0
  /\ isSigningOut = FALSE
  /\ refreshOps = << >>
  /\ pc = [r \in Req |-> "idle"]
  /\ retry = [r \in Req |-> FALSE]
  /\ issued = [r \in Req |-> 0]
  /\ hdr = [r \in Req |-> NoTok]
  /\ resp = [r \in Req |-> << >>]
  /\ awaited = [r \in Req |-> 0]
  /\ seen = [r \in Req |-> Unsettled]
  /\ result = [r \in Req |-> NoResult]
  /\ invoked = [r \in Req |-> 0]
  /\ navigated = [r \in Req |-> 0]

----------------------------------------------------------------------------
\* The pages of the dashboard.  Each page is a variable of its own: a record
\* of the component's state (useState), of what its query last loaded, and
\* of what the server stores for it.

\* Text is a sequence of characters.
MonthsText == <<"m", "o", "n", "t", "h", "s">>
YearsText == <<"y", "e", "a", "r", "s">>
Monthly == <<"M", "o", "n", "t", "h", "l", "y">>
Quarterly == <<"Q", "u", "a", "r", "t", "e", "r", "l", "y">>
Yearly == <<"Y", "e", "a", "r", "l", "y">>

\* editingPlan === null
NoPlan == [id |-> "none", duration |-> << >>]

\* The subscriptions page as it mounts over the default pricing (3 months),
\* the plan modal closed.
SubscriptionsMounted ==
  [pricing |-> [count |-> 3, unit |-> MonthsText],
   isPlanModalOpen |-> FALSE,
   editingPlan |-> NoPlan,
   formData |-> [duration |-> Monthly]]

\* Largest number of testimonials the server stores.
MaxReviews == 10

\* selectedReview === null, and reviewsData while the query has no data.
NoReview == [id |-> 0, status |-> "none"]
NoData == [reviews |-> << >>, total |-> 0, loaded |-> FALSE]

\* The testimonials page as it mounts over an empty store: page 1, nothing
\* selected, no dialog open, the first fetch under way.
ReviewMounted ==
  [stored |-> [i \in 1..MaxReviews |-> "absent"],
   idless |-> FALSE,
   currentPage |-> 1,
   selectedReview |-> NoReview,
   reviewsData |-> NoData,
   isFetching |-> TRUE,
   isDeleteDialogOpen |-> FALSE,
   isPostDialogOpen |-> FALSE,
   isEditDialogOpen |-> FALSE,
   deleting |-> 0,
   posting |-> 0]

\* The revenue page as it mounts: the purchases query has no data, the
\* search box is empty, page 1, and the effects of the first render are due.
RevenueMounted ==
  [purchases |-> << >>,
   isPurchasesLoading |-> TRUE,
   searchTerm |-> << >>,
   currentPage |-> 1,
   searchTermChanged |-> TRUE,
   effectsPending |-> TRUE]

\* Largest number of users the server stores.
MaxUsers == 10

\* The payload of the dashboard query before its first answer.
NoOverview == [recentUsers |-> << >>, totalUsers |-> 0, totalPages |-> 0]

\* The dashboard as it mounts over an empty store: page 1, no user
\* selected, the dialog closed, the first fetch under way.
DashboardMounted ==
  [users |-> [i \in 1..MaxUsers |-> "absent"],
   page |-> 1,
   selectedUserId |-> 0,
   isDeleteDialogOpen |-> FALSE,
   payload |-> NoOverview,
   isLoading |-> TRUE,
   isFetching |-> TRUE,
   deleting |-> {}]

\* The payload of the tickets query before its first answer.
NoTickets == [items |-> << >>, total |-> 0, limit |-> 0]

\* The support page as it mounts over an empty store: page 1, every status,
\* no ticket selected, the first fetch under way and the effects of the
\* first render due.
SupportMounted ==
  [stored |-> 0,
   currentPage |-> 1,
   statusFilter |-> "all",
   selectedTicketId |-> 0,
   ticketsPayload |-> NoTickets,
   isTicketsLoading |-> TRUE,
   isFetching |-> TRUE,
   filterChanged |-> TRUE,
   effectsPending |-> TRUE]

\* The three fields of the change-password form when empty.
EmptyPasswordForm ==
  [currentPassword |-> << >>, newPassword |-> << >>,
   confirmPassword |-> << >>]

\* No change-password request is in flight.
NoRequest == [sent |-> FALSE, isChangingPassword |-> FALSE]

\* The settings page as it mounts: the dialog closed, the form empty, no
\* change under way, no toast shown.
SettingsMounted ==
  [isPasswordModalOpen |-> FALSE,
   isChangingPassword |-> FALSE,
   passwordForm |-> EmptyPasswordForm,
   request |-> NoRequest,
   toast |-> "none"]

\* The gateway before its first request, with every page as it mounts.
Init ==
  /\ GatewayInit
  /\ subscriptions = SubscriptionsMounted
  /\ review = ReviewMounted
  /\ revenue = RevenueMounted
  /\ dashboard = DashboardMounted
  /\ support = SupportMounted
  /\ settings = SettingsMounted

----------------------------------------------------------------------------
\* Promise.reject(error) / a throw out of the async handler: the caller's
\* promise settles and the handler is over.
Settle(r, out, st) ==
  [st EXCEPT !.pc[r] = "done", !.result[r] = out]

\* axiosInstance(config): the request interceptor starts its getSession.
CallInstance(r, st) ==
  [st EXCEPT !.pc[r] = "lookup", !.issued[r] = @ + 1]

\* Variant of getRefreshedSession without the test of line 24: every call
\* starts a getSession of its own.
GetRefreshedSession_NoGuard(r, st) ==
  [st EXCEPT
     !.refreshOps = Append(@, [pending |-> TRUE, outcome |-> Unsettled,
                               waiters |-> << >>]),
     !.refreshSessionPromise = Len(st.refreshOps) + 1,
     !.awaited[r] = Len(st.refreshOps) + 1]

\* getRefreshedSession, lines 23-30.
GetRefreshedSession(r, st) ==
  LET s1 == IF st.refreshSessionPromise = 0
            THEN [st EXCEPT
                    !.refreshOps = Append(@, [pending |-> TRUE,
                                              outcome |-> Unsettled,
                                              waiters |-> << >>]),
                    !.refreshSessionPromise = Len(st.refreshOps) + 1]
            ELSE st
  IN [s1 EXCEPT !.awaited[r] = s1.refreshSessionPromise]

\* Variant of the sign-out path without the window test of line 71.
SignOutPath_NoWindowGuard(r, k, st) ==
  IF k = "e401"
  THEN IF ~st.isSigningOut
       THEN [st EXCEPT !.isSigningOut = TRUE,
                       !.invoked[r] = @ + 1,
                       !.pc[r] = "signingOut"]
       ELSE Settle(r, Outcome(k, st.issued[r]),
                   [st EXCEPT !.navigated[r] = @ + 1])
  ELSE Settle(r, Outcome(k, st.issued[r]), st)

\* Variant of the sign-out path without the else branch of lines 75-77.
SignOutPath_NoFallback(r, k, st) ==
  IF k = "e401" /\ st.hasWindow /\ ~st.isSigningOut
  THEN [st EXCEPT !.isSigningOut = TRUE,
                  !.invoked[r] = @ + 1,
                  !.pc[r] = "signingOut"]
  ELSE Settle(r, Outcome(k, st.issued[r]), st)

\* Variant of the sign-out path that does not test the latch of line 72.
SignOutPath_NoLatch(r, k, st) ==
  IF k = "e401" /\ st.hasWindow
  THEN [st EXCEPT !.isSigningOut = TRUE,
                  !.invoked[r] = @ + 1,
                  !.pc[r] = "signingOut"]
  ELSE Settle(r, Outcome(k, st.issued[r]), st)

\* The sign-out path and the final rejection, lines 69-81, for the error of
\* kind k that the handler of request r holds.  window.location.href is
\* assigned and the handler rejects in the same turn; signOut suspends it.
SignOutPath(r, k, st) ==
  IF k = "e401" /\ st.hasWindow
  THEN IF ~st.isSigningOut
       THEN [st EXCEPT !.isSigningOut = TRUE,
                       !.invoked[r] = @ + 1,
                       !.pc[r] = "signingOut"]
       ELSE Settle(r, Outcome(k, st.issued[r]),
                   [st EXCEPT !.navigated[r] = @ + 1])
  ELSE Settle(r, Outcome(k, st.issued[r]), st)

\* Variant of lines 60-66 that does not test session.error.
AfterRefresh_IgnoreError(r, out, st) ==
  LET s1 == [st EXCEPT !.seen[r] = out]
  IN IF out = Rejected
     THEN Settle(r, Outcome("refreshErr", s1.issued[r]), s1)
     ELSE IF out.accessToken # NoTok
          THEN CallInstance(r, [s1 EXCEPT !.hdr[r] = out.accessToken])
          ELSE SignOutPath(r, "e401", s1)

\* Variant of lines 60-66 without the return of line 65: the re-issue is
\* started and the handler goes on to the sign-out path with its 401.
AfterRefresh_NoReturn(r, out, st) ==
  LET s1 == [st EXCEPT !.seen[r] = out]
  IN IF out = Rejected
     THEN Settle(r, Outcome("refreshErr", s1.issued[r]), s1)
     ELSE IF out.accessToken # NoTok /\ ~out.error
          THEN SignOutPath(r, "e401",
                 [s1 EXCEPT !.hdr[r] = out.accessToken, !.issued[r] = @ + 1])
          ELSE SignOutPath(r, "e401", s1)

\* Variant of lines 60-66 that never re-issues.
AfterRefresh_NoRetry(r, out, st) ==
  LET s1 == [st EXCEPT !.seen[r] = out]
  IN IF out = Rejected
     THEN Settle(r, Outcome("refreshErr", s1.issued[r]), s1)
     ELSE SignOutPath(r, "e401", s1)

\* Lines 59-67 from the point where the await of the refresh promise
\* produces out (a session, or the rejection, which the handler does not
\* catch).
AfterRefresh(r, out, st) ==
  LET s1 == [st EXCEPT !.seen[r] = out]
  IN IF out = Rejected
     THEN Settle(r, Outcome("refreshErr", s1.issued[r]), s1)
     ELSE IF out.accessToken # NoTok /\ ~out.error
          THEN CallInstance(r, [s1 EXCEPT !.hdr[r] = out.accessToken])
          ELSE SignOutPath(r, "e401", s1)

\* Awaiting the promise p that getRefreshedSession returned (line 59): the
\* handler is suspended while p is pending and goes on at once with the
\* outcome of a settled p; awaiting null yields null.
Await(r, p, st) ==
  IF p = 0
  THEN AfterRefresh(r, NullSession, st)
  ELSE IF st.refreshOps[p].pending
       THEN [st EXCEPT !.pc[r] = "refreshing",
                       !.refreshOps[p].waiters = Append(@, r)]
       ELSE AfterRefresh(r, st.refreshOps[p].outcome, st)

\* Variant of the handler that sets _retry but does not test it in line 56.
OnRejected_IgnoreMark(r, k, st) ==
  IF st.hasWindow /\ k = "e401"
  THEN LET s1 == [st EXCEPT !.retry[r] = TRUE]
           s2 == GetRefreshedSession(r, s1)
       IN Await(r, s2.awaited[r], s2)
  ELSE SignOutPath(r, k, st)

\* Variant of the handler whose retried marker is one flag of the module
\* instead of a field of the request.
OnRejected_SharedMark(r, k, st) ==
  IF st.hasWindow /\ k = "e401" /\ ~st.retry[r]
  THEN LET s1 == [st EXCEPT !.retry = [q \in Req |-> TRUE]]
           s2 == GetRefreshedSession(r, s1)
       IN Await(r, s2.awaited[r], s2)
  ELSE SignOutPath(r, k, st)

\* Variant of the handler that does not set _retry (line 57).
OnRejected_NoMark(r, k, st) ==
  IF st.hasWindow /\ k = "e401" /\ ~st.retry[r]
  THEN LET s2 == GetRefreshedSession(r, st)
       IN Await(r, s2.awaited[r], s2)
  ELSE SignOutPath(r, k, st)

\* Variant of the handler that does not test the status in line 56.
OnRejected_AnyStatus(r, k, st) ==
  IF st.hasWindow /\ ~st.retry[r]
  THEN LET s1 == [st EXCEPT !.retry[r] = TRUE]
           s2 == GetRefreshedSession(r, s1)
       IN Await(r, s2.awaited[r], s2)
  ELSE SignOutPath(r, k, st)

\* Variant of the handler that calls getSession itself in line 59 instead
\* of getRefreshedSession.
OnRejected_OwnRefresh(r, k, st) ==
  IF st.hasWindow /\ k = "e401" /\ ~st.retry[r]
  THEN LET s1 == [st EXCEPT !.retry[r] = TRUE]
           s2 == [s1 EXCEPT
                    !.refreshOps = Append(@, [pending |-> TRUE,
                                              outcome |-> Unsettled,
                                              waiters |-> << >>]),
                    !.awaited[r] = Len(s1.refreshOps) + 1]
       IN Await(r, s2.awaited[r], s2)
  ELSE SignOutPath(r, k, st)

\* The rejection handler of the response interceptor, lines 53-82, up to
\* its first suspension.
OnRejected(r, k, st) ==
  IF st.hasWindow /\ k = "e401" /\ ~st.retry[r]
  THEN LET s1 == [st EXCEPT !.retry[r] = TRUE]
           s2 == GetRefreshedSession(r, s1)
       IN Await(r, s2.awaited[r], s2)
  ELSE SignOutPath(r, k, st)

\* The continuations of the handlers awaiting a settled refresh promise, in
\* subscription order.
RECURSIVE ResumeAll(_, _, _)
ResumeAll(ws, out, st) ==
  IF ws = << >> THEN st
  ELSE ResumeAll(Tail(ws), out, AfterRefresh(Head(ws), out, st))

\* Variant of the settlement without the .finally callback of lines 25-27.
OnRefreshSettled_NoClear(p, out, st) ==
  LET s1 == [st EXCEPT !.refreshOps[p] = [pending |-> FALSE,
                                          outcome |-> out,
                                          waiters |-> << >>]]
  IN ResumeAll(st.refreshOps[p].waiters, out, s1)

\* Variant of the settlement with .then in place of .finally: the variable
\* is cleared only when getSession resolves.
OnRefreshSettled_ClearOnSuccess(p, out, st) ==
  LET s1 == [st EXCEPT !.refreshSessionPromise =
                          IF out = Rejected THEN @ ELSE 0,
                       !.refreshOps[p] = [pending |-> FALSE,
                                          outcome |-> out,
                                          waiters |-> << >>]]
  IN ResumeAll(st.refreshOps[p].waiters, out, s1)

\* The .finally callback of line 25-27 and the settlement of the promise
\* stored in refreshSessionPromise.
OnRefreshSettled(p, out, st) ==
  LET s1 == [st EXCEPT !.refreshSessionPromise = 0,
                       !.refreshOps[p] = [pending |-> FALSE,
                                          outcome |-> out,
                                          waiters |-> << >>]]
  IN ResumeAll(st.refreshOps[p].waiters, out, s1)

\* Variant of the request interceptor without the try/catch of lines 35-42:
\* a rejected getSession rejects the request.
OnLookup_FailClosed(r, out, st) ==
  IF out = Rejected
  THEN Settle(r, Outcome("lookupErr", st.issued[r]), st)
  ELSE LET s1 == IF out.accessToken # NoTok
                 THEN [st EXCEPT !.hdr[r] = out.accessToken]
                 ELSE st
       IN [s1 EXCEPT !.pc[r] = "sent"]

\* The request interceptor after its getSession settled, lines 34-44.
OnLookup(r, out, st) ==
  LET s1 == IF out # Rejected /\ out.accessToken # NoTok
            THEN [st EXCEPT !.hdr[r] = out.accessToken]
            ELSE st
  IN [s1 EXCEPT !.pc[r] = "sent"]

\* Line 74 after signOut settled, and the rejection of line 81.
OnSignOutSettled(r, ok, st) ==
  IF ok THEN Settle(r, Outcome("e401", st.issued[r]), st)
  ELSE Settle(r, Outcome("signOutErr", st.issued[r]), st)

----------------------------------------------------------------------------
\* A caller issues request r.  Requests are interchangeable, so they are
\* issued in the order of their numbers.
Issue(r) ==
  /\ pc[r] = "idle"
  /\ r > 1 => pc[r - 1] # "idle"
  /\ Commit(CallInstance(r, Cur))

\* Variant of the request stage that waits for a pending refresh before it
\* goes on.
LookupSettles_AfterRefresh(r) ==
  /\ pc[r] = "lookup"
  /\ refreshSessionPromise = 0
  /\ \E out \in SessionOutcomes : Commit(OnLookup(r, out, Cur))

\* The getSession of the request interceptor settles and the request is
\* sent.
LookupSettles(r) ==
  /\ pc[r] = "lookup"
  /\ \E out \in SessionOutcomes : Commit(OnLookup(r, out, Cur))

\* The wire answers with a 2xx: the response interceptor passes it through.
ResponseOk(r) ==
  /\ pc[r] = "sent"
  /\ Commit(Settle(r, Outcome("ok", issued[r]),
                   [Cur EXCEPT !.resp[r] = Append(@, "ok")]))

\* The wire answers with an error or not at all.
ResponseError(r) ==
  /\ pc[r] = "sent"
  /\ \E k \in ErrorKinds :
       Commit(OnRejected(r, k, [Cur EXCEPT !.resp[r] = Append(@, k)]))

\* The getSession started by getRefreshedSession settles.
RefreshSettles(p) ==
  /\ p \in 1..Len(refreshOps)
  /\ refreshOps[p].pending
  /\ \E out \in SessionOutcomes : Commit(OnRefreshSettled(p, out, Cur))

\* signOut settles.
SignOutSettles(r) ==
  /\ pc[r] = "signingOut"
  /\ \E ok \in BOOLEAN : Commit(OnSignOutSettled(r, ok, Cur))

Next ==
  \/ \E r \in Req : Issue(r)
  \/ \E r \in Req : LookupSettles(r)
  \/ \E r \in Req : ResponseOk(r)
  \/ \E r \in Req : ResponseError(r)
  \/ \E p \in 1..NumReq : RefreshSettles(p)
  \/ \E r \in Req : SignOutSettles(r)

Spec == Init /\ [][Next]_vars

\* Every asynchronous call settles: axios gives each send 15 s (line 12),
\* and getSession and signOut end with the fetch they make.
Fairness ==
  /\ \A r \in Req : WF_vars(LookupSettles(r))
  /\ \A r \in Req : WF_vars(ResponseOk(r) \/ ResponseError(r))
  /\ \A p \in 1..NumReq : WF_vars(RefreshSettles(p))
  /\ \A r \in Req : WF_vars(SignOutSettles(r))

FairSpec == Spec /\ Fairness

----------------------------------------------------------------------------
\* Helpers of the properties.

\* session?.accessToken && !session?.error
Valid(s) == s.kind = "session" /\ s.accessToken # NoTok /\ ~s.error

\* The refresh operations that have not settled.
InFlight == {p \in 1..Len(refreshOps) : refreshOps[p].pending}

\* Request r's handler has gone through its await of the refresh promise.
Resumed(r) == seen[r] # Unsettled

\* The requests whose handler entered the sign-out path in a browser, and
\* the number of entries of one request.
Entries(r) == invoked[r] + navigated[r]
Reached == {r \in Req : Entries(r) > 0}
Invokers == {r \in Req : invoked[r] > 0}

\* The step is the rejection handler of request r running for a wire error.
Handles(r) == pc[r] = "sent" /\ Len(resp'[r]) = Len(resp[r]) + 1

\* C1: in every reachable state at most one refresh operation started by
\* getRefreshedSession is in flight, however many requests received a 401.
C1_SingleRefreshInFlight == Cardinality(InFlight) <= 1

\* Two requests are suspended on the one refresh in flight.
C1_Witness ==
  /\ Cardinality(InFlight) = 1
  /\ \E p \in InFlight : Len(refreshOps[p].waiters) >= 2

\* C2: a 401 handler that asks for the refreshed session while a refresh is
\* pending gets that pending operation and starts none, and every handler
\* that awaited an operation observes that operation's one outcome, the
\* same as the handler that started it.
C2_JoinStep ==
  \A r \in Req :
    (/\ Handles(r)
     /\ InFlight # {}
     /\ retry'[r] /\ ~retry[r])
    => /\ awaited'[r] \in InFlight
       /\ awaited'[r] = refreshSessionPromise
       /\ Len(refreshOps') = Len(refreshOps)
       /\ refreshSessionPromise' = refreshSessionPromise
       /\ pc'[r] = "refreshing"
C2_SameOutcome ==
  /\ \A r \in Req :
       Resumed(r) => /\ awaited[r] \in 1..Len(refreshOps)
                     /\ seen[r] = refreshOps[awaited[r]].outcome
  /\ \A r1, r2 \in Req :
       (Resumed(r1) /\ Resumed(r2) /\ awaited[r1] = awaited[r2])
       => seen[r1] = seen[r2]
C2_SharedRefresh == [][C2_JoinStep]_vars /\ []C2_SameOutcome

\* Two handlers shared one refresh; both saw its rejection.
C2_Witness ==
  \E r1, r2 \in Req :
    /\ r1 # r2
    /\ awaited[r1] = awaited[r2] /\ awaited[r1] # 0
    /\ seen[r1] = Rejected /\ seen[r2] = Rejected
    /\ Len(refreshOps) = 1

\* C3: requests whose 401s overlap wait on one and the same refresh
\* operation and observe its outcome; when three requests shared a refresh
\* that resolved with a valid session, each was re-issued exactly once and
\* its caller gets what the re-issue produced.
C3_SingleFlight ==
  /\ \A r1, r2 \in Req :
       (pc[r1] = "refreshing" /\ pc[r2] = "refreshing")
       => /\ awaited[r1] = awaited[r2]
          /\ InFlight = {awaited[r1]}
  /\ \A r \in Req :
       Resumed(r) => seen[r] = refreshOps[awaited[r]].outcome
  /\ \A p \in 1..Len(refreshOps) :
       LET W == {r \in Req : awaited[r] = p /\ Resumed(r)}
       IN (Cardinality(W) >= 3 /\ Valid(refreshOps[p].outcome))
          => \A r \in W :
               /\ issued[r] = 2
               /\ pc[r] = "done" => /\ result[r].att = 2
                                    /\ Len(resp[r]) = 2

\* Three requests shared one valid refresh and all three retries are over.
C3_Witness ==
  /\ Len(refreshOps) = 1
  /\ Valid(refreshOps[1].outcome)
  /\ \A r \in 1..3 :
       /\ awaited[r] = 1 /\ Resumed(r)
       /\ pc[r] = "done" /\ issued[r] = 2
  /\ result[1].kind = "ok" /\ result[2].kind = "e500"

\* C4: a request is issued at most twice (once, and one re-issue), and a
\* 401 on a request already marked retried re-issues nothing and starts or
\* awaits no refresh.
C4_IssuedTwice == \A r \in Req : issued[r] <= 2 /\ Len(resp[r]) <= 2
C4_SecondStep ==
  \A r \in Req :
    (Handles(r) /\ retry[r])
    => /\ issued' = issued
       /\ refreshOps' = refreshOps
       /\ refreshSessionPromise' = refreshSessionPromise
       /\ awaited' = awaited
       /\ pc'[r] \in {"done", "signingOut"}
C4_RetryAtMostOnce == [][C4_SecondStep]_vars /\ []C4_IssuedTwice

\* A request got a 401, was re-issued and got a 401 again.
C4_Witness ==
  \E r \in Req :
    /\ resp[r] = <<"e401", "e401">>
    /\ pc[r] = "done" /\ issued[r] = 2

\* C5: of the requests that reach the sign-out path in a browser, the first
\* invokes signOut, once, and each of the others invokes nothing and
\* assigns window.location.href.
C5_SignOutOnce ==
  /\ Cardinality(Invokers) <= 1
  /\ \A r \in Req : invoked[r] <= 1
  /\ Reached # {} => Cardinality(Invokers) = 1
  /\ \A r \in Reached \ Invokers : navigated[r] = 1
  /\ \A r \in Invokers : navigated[r] = 0
  /\ isSigningOut <=> Invokers # {}

\* Three requests are on the sign-out path while signOut is still running.
C5_Witness ==
  /\ Cardinality(Reached) = 3
  /\ \E r \in Invokers : pc[r] = "signingOut"

\* The wire's answer that the handler of the step runs for.
Answer(r) == resp'[r][Len(resp'[r])]

\* C6: the settlement of a refresh, resolved or rejected, clears
\* refreshSessionPromise, and a 401 on a request not yet retried that
\* arrives when no refresh is in flight starts a new refresh operation and
\* waits for it.
C6_SettleStep ==
  \A p \in InFlight :
    ~refreshOps'[p].pending => refreshSessionPromise' = 0
C6_NextStep ==
  \A r \in Req :
    (/\ Handles(r) /\ Answer(r) = "e401"
     /\ hasWindow /\ ~retry[r]
     /\ InFlight = {})
    => /\ Len(refreshOps') = Len(refreshOps) + 1
       /\ awaited'[r] = Len(refreshOps')
       /\ refreshSessionPromise' = Len(refreshOps')
       /\ refreshOps'[Len(refreshOps')].pending
       /\ pc'[r] = "refreshing"
C6_FreshRefresh == [][C6_SettleStep /\ C6_NextStep]_vars

\* A refresh was rejected, the next one resolved, and a third is in flight.
C6_Witness ==
  /\ Len(refreshOps) = 3
  /\ refreshOps[1].outcome = Rejected
  /\ Valid(refreshOps[2].outcome)
  /\ refreshOps[3].pending /\ refreshSessionPromise = 3

\* C7: a failure other than a 401 settles the caller with the error of that
\* send and changes nothing else: no refresh, no re-issue, no change of the
\* retried marker or of the latch, no signOut, no navigation.
C7_Step ==
  \A r \in Req :
    (Handles(r) /\ Answer(r) \in {"e500", "net"})
    => /\ pc'[r] = "done"
       /\ result'[r] = Outcome(Answer(r), issued[r])
       /\ UNCHANGED <<refreshOps, refreshSessionPromise, issued, retry,
                      isSigningOut, invoked, navigated, awaited, seen, hdr>>
       /\ \A q \in Req \ {r} : pc'[q] = pc[q] /\ result'[q] = result[q]
C7_PassThrough == [][C7_Step]_vars

\* A first send failed without a response and a re-issue failed with a 500.
C7_Witness ==
  \E r1, r2 \in Req :
    /\ result[r1] = Outcome("net", 1) /\ resp[r1] = <<"net">>
    /\ result[r2] = Outcome("e500", 2) /\ resp[r2] = <<"e401", "e500">>

\* C8: a request whose refresh was rejected is not re-issued, enters the
\* sign-out path, and its caller gets the original 401.
C8_RefreshRejectionSignsOut ==
  \A r \in Req :
    seen[r] = Rejected
    => /\ issued[r] = 1
       /\ Entries(r) = 1
       /\ pc[r] = "done" => result[r] = Outcome("e401", 1)

\* C9: a request whose refresh resolved with null, with a session without
\* token or with an error-marked session is not re-issued and enters the
\* sign-out path exactly once.
C9_InvalidSessionSignsOut ==
  \A r \in Req :
    (seen[r] \in Sessions /\ ~Valid(seen[r]))
    => /\ issued[r] = 1
       /\ Len(resp[r]) = 1
       /\ Entries(r) = 1
       /\ pc[r] \in {"signingOut", "done"}

\* One request saw an error-marked session and called signOut, another saw a
\* session without token and navigated.
C9_Witness ==
  \E r1, r2 \in Req :
    /\ seen[r1] = Session("t1", TRUE) /\ invoked[r1] = 1
    /\ seen[r2] = Session(NoTok, FALSE) /\ navigated[r2] = 1

\* C10: a request whose refresh resolved with a valid session is re-issued
\* exactly once and its caller gets what the re-issue produced: the wire's
\* answer to the re-issue when that is a success, a 500 or no response, and
\* the outcome of the re-issue's sign-out path when it is a 401.  A re-issue
\* that does not fail with a 401 never enters the sign-out path, and the
\* caller gets a 401 only when the re-issue got one.
C10_RetryOutcome ==
  \A r \in Req :
    Valid(seen[r])
    => /\ issued[r] = 2
       /\ pc[r] # "refreshing"
       /\ (Len(resp[r]) < 2 \/ resp[r][2] # "e401") => Entries(r) = 0
       /\ pc[r] = "done"
          => /\ Len(resp[r]) = 2
             /\ result[r].att = 2
             /\ resp[r][2] # "e401" => result[r].kind = resp[r][2]
             /\ resp[r][2] = "e401"
                => /\ result[r].kind \in {"e401", "signOutErr"}
                   /\ Entries(r) = 1
             /\ result[r].kind = "e401" => resp[r][2] = "e401"

\* After a valid refresh one re-issue succeeded and another got a 401.
C10_Witness ==
  \E r1, r2 \in Req :
    /\ Valid(seen[r1]) /\ result[r1] = Outcome("ok", 2)
    /\ Valid(seen[r2]) /\ result[r2] = Outcome("e401", 2)

\* C11: the re-issue goes on the wire with the access token of the refresh
\* outcome its handler awaited.
C11_RetryCarriesRefreshedToken ==
  \A r \in Req :
    (issued[r] = 2 /\ pc[r] # "lookup") => hdr[r] = seen[r].accessToken

\* C12: a 401 on a request already marked retried enters the sign-out path
\* in the same turn; it asks for no refresh and re-issues nothing.
C12_Step ==
  \A r \in Req :
    (Handles(r) /\ Answer(r) = "e401" /\ retry[r] /\ hasWindow)
    => /\ invoked'[r] + navigated'[r] = Entries(r) + 1
       /\ pc'[r] \in {"signingOut", "done"}
       /\ issued' = issued
       /\ refreshOps' = refreshOps
       /\ refreshSessionPromise' = refreshSessionPromise
       /\ awaited' = awaited /\ seen' = seen
C12_RetriedGoesToSignOut ==
  /\ [][C12_Step]_vars
  /\ [](\A r \in Req :
          (Len(resp[r]) = 2 /\ resp[r][2] = "e401")
          => Entries(r) = 1 /\ issued[r] = 2)

\* The 401 of a re-issue went to the sign-out path while a later refresh
\* was in flight, and did not join it.
C12_Witness ==
  \E r \in Req :
    /\ resp[r] = <<"e401", "e401">>
    /\ Entries(r) = 1
    /\ InFlight # {} /\ awaited[r] \notin InFlight

\* C13: without window a 401 rejects the caller with the error of the send
\* and does nothing else: no refresh, no re-issue, no signOut, no
\* navigation, the marker and the latch unchanged.
C13_Step ==
  \A r \in Req :
    (Handles(r) /\ Answer(r) = "e401" /\ ~hasWindow)
    => /\ pc'[r] = "done"
       /\ result'[r] = Outcome("e401", issued[r])
       /\ UNCHANGED <<refreshOps, refreshSessionPromise, issued, retry,
                      isSigningOut, invoked, navigated, awaited, seen, hdr>>
C13_Quiet ==
  ~hasWindow
  => /\ refreshOps = << >> /\ refreshSessionPromise = 0 /\ ~isSigningOut
     /\ \A r \in Req :
          /\ issued[r] <= 1 /\ ~retry[r]
          /\ invoked[r] = 0 /\ navigated[r] = 0
          /\ pc[r] \notin {"refreshing", "signingOut"}
C13_ServerSide401 == [][C13_Step]_vars /\ []C13_Quiet

\* Without window, two requests were rejected with their 401.
C13_Witness ==
  /\ ~hasWindow
  /\ \E r1, r2 \in Req :
       /\ r1 # r2
       /\ result[r1] = Outcome("e401", 1) /\ result[r2] = Outcome("e401", 1)

\* Lookup outcomes that carry no access token: the rejection, null, and a
\* session without token.
NoCredential == {Rejected, NullSession, Session(NoTok, FALSE)}

\* The sum of f over the requests.
RECURSIVE SumUpTo(_, _)
SumUpTo(f, n) == IF n = 0 THEN 0 ELSE f[n] + SumUpTo(f, n - 1)
Total(f) == SumUpTo(f, NumReq)

\* C14: when the getSession of the request interceptor rejects, or
\* resolves with null or without an access token, the request is sent with
\* the Authorization header it had before the lookup and its caller is not
\* settled; no step takes a request from the lookup to anything but the
\* send.
C14_LookupOutcome ==
  \A r \in Req :
    pc[r] = "lookup"
    => \A out \in NoCredential :
         LET s == OnLookup(r, out, Cur)
         IN /\ s.pc[r] = "sent"
            /\ s.hdr[r] = hdr[r]
            /\ s.result = result
            /\ s.issued = issued
C14_Step ==
  \A r \in Req :
    (pc[r] = "lookup" /\ pc'[r] # "lookup")
    => /\ pc'[r] = "sent"
       /\ result'[r] = NoResult
       /\ hdr'[r] \in {hdr[r]} \cup Tokens
C14_FailOpenLookup == [][C14_Step]_vars /\ []C14_LookupOutcome

\* A first send is on the wire without Authorization header: its lookup
\* was rejected or had no token.
C14_Witness ==
  \E r \in Req :
    /\ pc[r] = "sent" /\ issued[r] = 1
    /\ hdr[r] = NoTok /\ result[r] = NoResult

\* The request's handler went through the sign-out path in a browser: it is
\* waiting for signOut, or its caller got the 401 or signOut's error.
OnSignOutPath(r) ==
  /\ hasWindow
  /\ \/ pc[r] = "signingOut"
     \/ pc[r] = "done" /\ result[r].kind \in {"e401", "signOutErr"}

\* C15 as claimed: however many requests reach the sign-out path, the
\* gateway triggers one navigation to the login view in all, counting the
\* signOut call and the direct assignments of window.location.href.
C15_OneRedirect == Total(invoked) + Total(navigated) <= 1

\* C15 as amended: signOut is called exactly once, by one request, and
\* every other request that goes through the sign-out path assigns
\* window.location.href once, so M requests on the path cause one signOut
\* call and M - 1 direct navigations.
C15_OneSignOutPerPath ==
  LET M == Cardinality({r \in Req : OnSignOutPath(r)})
  IN /\ \A r \in Req : Entries(r) > 0 <=> OnSignOutPath(r)
     /\ M > 0 => /\ Total(invoked) = 1
                 /\ Total(navigated) = M - 1
     /\ M = 0 => Total(invoked) + Total(navigated) = 0

\* Three requests went through the sign-out path: one signOut call, settled,
\* and two direct navigations.
C15_Witness ==
  /\ Total(invoked) = 1 /\ Total(navigated) = 2
  /\ \A r \in Req : pc[r] = "done"

\* C16: when signOut settles, resolved or rejected, the latch is reset.
C16_LatchReset ==
  [][\A r \in Req :
       (pc[r] = "signingOut" /\ pc'[r] = "done") => ~isSigningOut']_vars

\* C17: the request stage is never held up by a refresh: whenever a
\* request is at its credential lookup the lookup can settle and the
\* request be sent, whenever a request is next to be issued it can be
\* issued, and neither step reads or changes the refresh state.
C17_Ready ==
  \A r \in Req :
    /\ pc[r] = "lookup" => ENABLED LookupSettles(r)
    /\ (pc[r] = "idle" /\ (r = 1 \/ pc[r - 1] # "idle")) => ENABLED Issue(r)
C17_Step ==
  \A r \in Req :
    (pc[r] \in {"idle", "lookup"} /\ pc'[r] # pc[r])
    => /\ pc'[r] = IF pc[r] = "idle" THEN "lookup" ELSE "sent"
       /\ UNCHANGED <<refreshOps, refreshSessionPromise, awaited, seen>>
C17_RequestStageNeverWaits == [][C17_Step]_vars /\ []C17_Ready

\* Two handlers wait for the refresh in flight and the third request, not
\* answered yet, is on the wire.
C17_Witness ==
  /\ InFlight = {1}
  /\ refreshOps[1].waiters = <<1, 2>>
  /\ pc[3] = "sent" /\ issued[3] = 1 /\ awaited[3] = 0

\* C18: under FairSpec every issued request reaches its caller, the
\* refresh reference is cleared again, and a settled request is in exactly
\* one of the terminal outcomes: success, passed-through failure, retried
\* success, retried failure, signed-out failure.
C18_Success(r) == result[r] = Outcome("ok", 1)
C18_PassedThrough(r) ==
  /\ result[r].att = 1
  /\ \/ result[r].kind \in {"e500", "net"}
     \/ result[r].kind = "e401" /\ ~hasWindow
C18_RetriedSuccess(r) == result[r] = Outcome("ok", 2)
C18_RetriedFailure(r) ==
  result[r].att = 2 /\ result[r].kind \in {"e500", "net"}
C18_SignedOut(r) ==
  /\ hasWindow /\ Entries(r) = 1
  /\ result[r].kind \in {"e401", "signOutErr"}
C18_TerminalKinds ==
  \A r \in Req :
    pc[r] = "done"
    => \/ C18_Success(r) \/ C18_PassedThrough(r) \/ C18_RetriedSuccess(r)
       \/ C18_RetriedFailure(r) \/ C18_SignedOut(r)
C18_Terminates ==
  /\ \A r \in Req : (pc[r] # "idle") ~> (pc[r] = "done")
  /\ (refreshSessionPromise # 0) ~> (refreshSessionPromise = 0)
C18_EveryRequestSettles == C18_Terminates /\ []C18_TerminalKinds

\* C19: the retried marker of a request is set only by the handler of its
\* own 401, and two requests that shared a refresh resolved with a valid
\* session are each re-issued, once.
C19_Step ==
  \A r \in Req :
    Handles(r) => \A q \in Req \ {r} : retry'[q] = retry[q]
C19_OwnMarker ==
  /\ \A r \in Req :
       /\ retry[r] => (Len(resp[r]) >= 1 /\ resp[r][1] = "e401")
       /\ issued[r] <= 2
  /\ \A r1, r2 \in Req :
       (/\ r1 # r2
        /\ awaited[r1] = awaited[r2]
        /\ Valid(seen[r1]) /\ Valid(seen[r2]))
       => /\ issued[r1] = 2 /\ issued[r2] = 2
          /\ retry[r1] /\ retry[r2]
C19_MarkerPerRequest == [][C19_Step]_vars /\ []C19_OwnMarker

\* Two requests shared one valid refresh; both re-issues are over, one of
\* them with a second 401.
C19_Witness ==
  \E r1, r2 \in Req :
    /\ r1 # r2
    /\ awaited[r1] = awaited[r2] /\ Valid(seen[r1]) /\ Valid(seen[r2])
    /\ pc[r1] = "done" /\ pc[r2] = "done"
    /\ issued[r1] = 2 /\ issued[r2] = 2
    /\ resp[r1] = <<"e401", "e401">> /\ resp[r2] = <<"e401", "ok">>

\* C20: a request that went through the sign-out path is rejected with the
\* 401 of its last send, however signOut settled, and the request that
\* called signOut is rejected only when signOut has settled.
C20_OwnError ==
  \A r \in Req :
    (pc[r] = "done" /\ Entries(r) > 0)
    => result[r] = Outcome("e401", issued[r])
C20_InvokerStep ==
  \A r \in Req :
    (invoked'[r] > invoked[r]) => (pc'[r] = "signingOut" /\ result'[r] = NoResult)
C20_SignedOutError == [][C20_InvokerStep]_vars /\ []C20_OwnError

\* C21: refreshSessionPromise is non-null exactly when a refresh started by
\* getRefreshedSession has not settled, and then it is that refresh: it
\* never names a settled refresh, and no refresh is in flight while it is
\* null.
C21_PromiseTracksRefresh ==
  /\ refreshSessionPromise = 0 <=> InFlight = {}
  /\ refreshSessionPromise # 0 => InFlight = {refreshSessionPromise}

\* A first refresh was rejected and cleared, and a second one is in flight
\* and stored.
C21_Witness ==
  /\ Len(refreshOps) = 2
  /\ refreshOps[1].outcome = Rejected
  /\ refreshOps[2].pending
  /\ refreshSessionPromise = 2

----------------------------------------------------------------------------
\* The subscriptions page (src/app/admin/subscriptions/page.tsx) and the
\* plan modal (src/components/admin/header.tsx).

\* Largest interval count the pricing settings store.
MaxCount == 36

Units == {MonthsText, YearsText}

\* Number.prototype.toString in base ten.
RECURSIVE Digits(_)
Digits(n) ==
  LET d == <<"0", "1", "2", "3", "4", "5", "6", "7", "8", "9">>
  IN IF n < 10 THEN <<d[n + 1]>>
     ELSE Append(Digits(n \div 10), d[(n % 10) + 1])

\* String.prototype.toLowerCase on the letters the texts above use.
RECURSIVE toLowerCase(_)
toLowerCase(t) ==
  IF t = << >> THEN << >>
  ELSE LET c == Head(t)
           l == CASE c = "M" -> "m" [] c = "Q" -> "q" [] c = "Y" -> "y"
                  [] c = "A" -> "a" [] c = "B" -> "b"
                  [] OTHER -> c
       IN <<l>> \o toLowerCase(Tail(t))

\* String.prototype.includes
includes(t, part) ==
  \E i \in 1..(Len(t) - Len(part) + 1) :
    SubSeq(t, i, i + Len(part) - 1) = part

\* safeUnit.replace(/s$/, "")
StripFinalS(t) ==
  IF t # << >> /\ t[Len(t)] = "s" THEN SubSeq(t, 1, Len(t) - 1) ELSE t

\* page.tsx lines 56-60
normalizeDuration(count, unit) ==
  LET safeUnit == IF unit = << >> THEN MonthsText ELSE unit
      label == IF count = 1 THEN StripFinalS(safeUnit) ELSE safeUnit
  IN Digits(count) \o <<" ">> \o label

\* page.tsx lines 62-67
mapDurationToSelect(duration) ==
  LET value == toLowerCase(duration)
  IN IF includes(value, <<"y", "e", "a", "r">>) THEN Yearly
     ELSE IF \/ includes(value, <<"q", "u", "a", "r", "t", "e", "r">>)
             \/ includes(value, <<"3">>)
          THEN Quarterly
          ELSE Monthly

\* header.tsx lines 159-168
toInterval(duration) ==
  LET value == IF duration = << >> THEN toLowerCase(Monthly)
               ELSE toLowerCase(duration)
  IN IF includes(value, <<"y", "e", "a", "r">>)
     THEN [count |-> 1, unit |-> YearsText]
     ELSE IF \/ includes(value, <<"q", "u", "a", "r", "t", "e", "r">>)
             \/ includes(value, <<"3">>)
          THEN [count |-> 3, unit |-> MonthsText]
          ELSE [count |-> 1, unit |-> MonthsText]

\* The professional plan card, page.tsx lines 149-168.
ProfessionalPlan(pricing) ==
  [id |-> "professional",
   duration |-> normalizeDuration(pricing.count, pricing.unit)]

\* The planData prop of the modal, page.tsx lines 294-306, and the value
\* the modal seeds its duration field with, header.tsx lines 134-144.
PlanDataDuration(editingPlan) ==
  IF editingPlan = NoPlan THEN << >>
  ELSE mapDurationToSelect(editingPlan.duration)
SeededDuration(editingPlan) ==
  IF PlanDataDuration(editingPlan) = << >> THEN Monthly
  ELSE PlanDataDuration(editingPlan)

\* handleOpenAdd and the modal's reset effect.
HandleOpenAdd ==
  /\ ~subscriptions.isPlanModalOpen
  /\ subscriptions' =
       [subscriptions EXCEPT !.editingPlan = NoPlan,
                             !.isPlanModalOpen = TRUE,
                             !.formData.duration = SeededDuration(NoPlan)]

\* handleOpenEdit on the professional plan and the modal's reset effect.
HandleOpenEdit ==
  /\ ~subscriptions.isPlanModalOpen
  /\ LET plan == ProfessionalPlan(subscriptions.pricing)
     IN subscriptions' =
          [subscriptions EXCEPT !.editingPlan = plan,
                                !.isPlanModalOpen = TRUE,
                                !.formData.duration = SeededDuration(plan)]

\* The user picks an entry of the duration select.
SelectDuration(v) ==
  /\ subscriptions.isPlanModalOpen
  /\ subscriptions.formData.duration # v
  /\ subscriptions' = [subscriptions EXCEPT !.formData.duration = v]

\* savePlan succeeds: the server stores the interval the modal sent, the
\* page refetches the pricing and the modal closes.
SavePlan ==
  /\ subscriptions.isPlanModalOpen
  /\ subscriptions' =
       [subscriptions EXCEPT
          !.pricing = toInterval(subscriptions.formData.duration),
          !.isPlanModalOpen = FALSE]

\* onClose without saving.
ClosePlanModal ==
  /\ subscriptions.isPlanModalOpen
  /\ subscriptions' = [subscriptions EXCEPT !.isPlanModalOpen = FALSE]

InitSubscriptions ==
  /\ GatewayInit /\ hasWindow
  /\ settings = SettingsMounted
  /\ support = SupportMounted
  /\ dashboard = DashboardMounted
  /\ revenue = RevenueMounted
  /\ review = ReviewMounted
  /\ \E n \in 1..MaxCount, u \in Units :
       subscriptions =
         [SubscriptionsMounted EXCEPT !.pricing = [count |-> n, unit |-> u]]

\* What a step of the subscriptions page leaves alone.
OffSubscriptions == <<gatewayVars, review, revenue, dashboard, support, settings>>

NextSubscriptions ==
  \/ HandleOpenAdd /\ UNCHANGED OffSubscriptions
  \/ HandleOpenEdit /\ UNCHANGED OffSubscriptions
  \/ \E v \in {Monthly, Quarterly, Yearly} :
       SelectDuration(v) /\ UNCHANGED OffSubscriptions
  \/ SavePlan /\ UNCHANGED OffSubscriptions
  \/ ClosePlanModal /\ UNCHANGED OffSubscriptions

SpecSubscriptions == InitSubscriptions /\ [][NextSubscriptions]_vars

\* C22: for every stored interval (count >= 1, unit months or years) the
\* duration the edit modal is seeded with maps back to the stored interval:
\* toInterval(mapDurationToSelect(normalizeDuration(count, unit))) is
\* (count, unit), so saving the plan with that duration untouched leaves the
\* stored billing interval as it was.
C22_SeedRoundTrip ==
  (/\ subscriptions.isPlanModalOpen
   /\ subscriptions.editingPlan # NoPlan
   /\ subscriptions.formData.duration
        = SeededDuration(subscriptions.editingPlan))
  => toInterval(subscriptions.formData.duration) = subscriptions.pricing
C22_SaveStep ==
  (/\ subscriptions.isPlanModalOpen
   /\ subscriptions.editingPlan # NoPlan
   /\ subscriptions.formData.duration
        = SeededDuration(subscriptions.editingPlan)
   /\ ~subscriptions'.isPlanModalOpen)
  => subscriptions'.pricing = subscriptions.pricing
C22_IntervalRoundTrip == [][C22_SaveStep]_vars /\ []C22_SeedRoundTrip

----------------------------------------------------------------------------
\* The testimonials page (src/components/admin/review/page.tsx).  The
\* record review holds the component's state, the data of its query for the
\* current page, and the testimonials the server stores.

\* const pageSize = 9
pageSize == 9

\* Largest page number the walk through the pager is followed to.
MaxPage == 3

\* Testimonials the administrator deletes, and testimonials the
\* administrator posts, in one visit.
MaxDeletes == 1
MaxPosts == 1

getReviewId(r) == r.id

normalizeStatus(value) ==
  IF value = "published" THEN "published" ELSE "pending"

\* The stored testimonials from number i on, as the server lists them.  A
\* testimonial served without reviewId and _id has the empty id 0.
RECURSIVE ListFrom(_, _)
ListFrom(d, i) ==
  IF i > MaxReviews THEN << >>
  ELSE IF d.stored[i] \in {"absent", "deleted"} THEN ListFrom(d, i + 1)
  ELSE <<[id |-> IF d.idless /\ i = 1 THEN 0 ELSE i,
          status |-> d.stored[i]]>> \o ListFrom(d, i + 1)

\* reviewAPI.listAdminReviews(page, pageSize) answered from the store.
listAdminReviews(d, page) ==
  LET all == ListFrom(d, 1)
      last == IF page * pageSize < Len(all) THEN page * pageSize
              ELSE Len(all)
  IN [reviews |-> SubSeq(all, (page - 1) * pageSize + 1, last),
      total |-> Len(all),
      loaded |-> TRUE]

\* Lines 94-97 and the isLoading flag of the query.
Reviews(d) == d.reviewsData.reviews
TotalCount(d) == d.reviewsData.total
TotalPages(d) ==
  IF TotalCount(d) = 0 THEN 1
  ELSE (TotalCount(d) + pageSize - 1) \div pageSize
IsLoading(d) == ~d.reviewsData.loaded

\* Lines 204-205.
HasSelection(d) ==
  d.selectedReview # NoReview /\ getReviewId(d.selectedReview) # 0

\* A dialog is open over the page.
ReviewModal(d) ==
  d.isDeleteDialogOpen \/ d.isPostDialogOpen \/ d.isEditDialogOpen

\* Variant of the page without the effect of lines 99-106.
ReviewEffects_None(d) == d

\* The effect of lines 99-106, run after every change of the list or of the
\* selection.
ReviewEffects(d) ==
  IF d.selectedReview = NoReview THEN d
  ELSE LET selectedId == getReviewId(d.selectedReview)
           stillExists ==
             \E k \in 1..Len(Reviews(d)) :
               getReviewId(Reviews(d)[k]) = selectedId
       IN IF stillExists THEN d
          ELSE [d EXCEPT !.selectedReview = NoReview]

\* refetch(): the query of the current page is fetched again.
Refetch(d) == [d EXCEPT !.isFetching = TRUE]

\* setCurrentPage(n); setSelectedReview(null) of the pager, lines 370-413.
\* A new page is a new query, without data until its fetch settles.
SetCurrentPage(d, n) ==
  [d EXCEPT !.currentPage = n,
            !.selectedReview = NoReview,
            !.reviewsData = IF n = d.currentPage THEN @ ELSE NoData,
            !.isFetching = IF n = d.currentPage THEN @ ELSE TRUE]

\* handlePostReview up to its await, lines 108-121.
handlePostReview(d) ==
  IF d.selectedReview = NoReview THEN d
  ELSE IF getReviewId(d.selectedReview) = 0 THEN d
  ELSE IF normalizeStatus(d.selectedReview.status) = "published"
       THEN [d EXCEPT !.isPostDialogOpen = FALSE]
       ELSE [d EXCEPT !.posting = getReviewId(d.selectedReview)]

\* handleDeleteReview up to its await, lines 132-138.
handleDeleteReview(d) ==
  IF d.selectedReview = NoReview THEN d
  ELSE IF getReviewId(d.selectedReview) = 0 THEN d
  ELSE [d EXCEPT !.deleting = getReviewId(d.selectedReview)]

\* The testimonials deleted, and those posted (the odd ones start pending),
\* since the page mounted.
Deleted(d) == {i \in 1..MaxReviews : d.stored[i] = "deleted"}
Posted(d) ==
  {i \in 1..MaxReviews : i % 2 = 1 /\ d.stored[i] = "published"}

\* A click on card k of the list.
SelectReview(k) ==
  /\ ~ReviewModal(review) /\ ~IsLoading(review)
  /\ k \in 1..Len(Reviews(review))
  /\ review' =
       ReviewEffects([review EXCEPT !.selectedReview = Reviews(review)[k]])

\* The pager, shown when the list is loaded and not empty.
PagerShown(d) == ~ReviewModal(d) /\ ~IsLoading(d) /\ TotalCount(d) > 0

PreviousPage ==
  /\ PagerShown(review)
  /\ review.currentPage # 1
  /\ review' = ReviewEffects(SetCurrentPage(review, review.currentPage - 1))

NextPage ==
  /\ PagerShown(review)
  /\ review.currentPage # TotalPages(review)
  /\ review.currentPage < MaxPage
  /\ review' = ReviewEffects(SetCurrentPage(review, review.currentPage + 1))

GoToPage(pageNum) ==
  /\ PagerShown(review)
  /\ pageNum \in 1..TotalPages(review)
  /\ \/ pageNum = 1
     \/ pageNum = TotalPages(review)
     \/ (pageNum >= review.currentPage - 1
         /\ pageNum <= review.currentPage + 1)
  /\ review' = ReviewEffects(SetCurrentPage(review, pageNum))

\* The Delete, Post and Edit buttons, rendered under hasSelection.
OpenDeleteDialog ==
  /\ ~ReviewModal(review) /\ HasSelection(review)
  /\ review' = ReviewEffects([review EXCEPT !.isDeleteDialogOpen = TRUE])

OpenPostDialog ==
  /\ ~ReviewModal(review) /\ HasSelection(review)
  /\ review' = ReviewEffects([review EXCEPT !.isPostDialogOpen = TRUE])

handleOpenEdit ==
  /\ ~ReviewModal(review) /\ HasSelection(review)
  /\ review' = ReviewEffects([review EXCEPT !.isEditDialogOpen = TRUE])

\* Cancel, or onOpenChange(false), of the three dialogs.
CancelDelete ==
  /\ review.isDeleteDialogOpen
  /\ review' = ReviewEffects([review EXCEPT !.isDeleteDialogOpen = FALSE])

CancelPost ==
  /\ review.isPostDialogOpen
  /\ review' = ReviewEffects([review EXCEPT !.isPostDialogOpen = FALSE])

CloseEdit ==
  /\ review.isEditDialogOpen
  /\ review' = ReviewEffects([review EXCEPT !.isEditDialogOpen = FALSE])

\* The action button of the delete dialog, disabled while isDeleting.
ConfirmDelete ==
  /\ review.isDeleteDialogOpen /\ review.deleting = 0
  /\ Cardinality(Deleted(review)) < MaxDeletes
  /\ review' = ReviewEffects(handleDeleteReview(review))

\* reviewAPI.deleteReview settles, lines 139-148.  The server deletes only
\* a testimonial it still stores.
DeleteSettles(ok) ==
  /\ review.deleting # 0
  /\ ok => review.stored[review.deleting] \in {"pending", "published"}
  /\ review' =
       ReviewEffects(
         IF ok
         THEN Refetch([review EXCEPT !.stored[review.deleting] = "deleted",
                                    !.isDeleteDialogOpen = FALSE,
                                    !.selectedReview = NoReview,
                                    !.deleting = 0])
         ELSE [review EXCEPT !.deleting = 0])

\* The action button of the post dialog, disabled while isPosting.
ConfirmPost ==
  /\ review.isPostDialogOpen /\ review.posting = 0
  /\ Cardinality(Posted(review)
                   \ {getReviewId(review.selectedReview)}) < MaxPosts
  /\ review' = ReviewEffects(handlePostReview(review))

\* reviewAPI.updateReview(id, {status: "published"}) settles, lines 122-129.
PostSettles(ok) ==
  /\ review.posting # 0
  /\ ok => review.stored[review.posting] \in {"pending", "published"}
  /\ review' =
       ReviewEffects(
         IF ok
         THEN Refetch([review EXCEPT !.stored[review.posting] = "published",
                                    !.isPostDialogOpen = FALSE,
                                    !.posting = 0])
         ELSE [review EXCEPT !.posting = 0])

\* The fetch of the current page settles with what the server stores now.
FetchSettles ==
  /\ review.isFetching
  /\ review' =
       ReviewEffects(
         [review EXCEPT
            !.reviewsData = listAdminReviews(review, review.currentPage),
            !.isFetching = FALSE])

\* The page mounts over a store of n testimonials, the even ones published;
\* the first of them may be served without an id.
InitReview ==
  /\ GatewayInit /\ hasWindow
  /\ settings = SettingsMounted
  /\ support = SupportMounted
  /\ dashboard = DashboardMounted
  /\ revenue = RevenueMounted
  /\ subscriptions = SubscriptionsMounted
  /\ \E n \in 0..MaxReviews, b \in BOOLEAN :
       review =
         [ReviewMounted EXCEPT
            !.stored = [i \in 1..MaxReviews |->
                          IF i > n THEN "absent"
                          ELSE IF i % 2 = 0 THEN "published" ELSE "pending"],
            !.idless = b]

\* What a step of the testimonials page leaves alone.
OffReview == <<gatewayVars, subscriptions, revenue, dashboard, support, settings>>

NextReview ==
  \/ \E k \in 1..pageSize : SelectReview(k) /\ UNCHANGED OffReview
  \/ PreviousPage /\ UNCHANGED OffReview
  \/ NextPage /\ UNCHANGED OffReview
  \/ \E n \in 1..MaxPage : GoToPage(n) /\ UNCHANGED OffReview
  \/ OpenDeleteDialog /\ UNCHANGED OffReview
  \/ OpenPostDialog /\ UNCHANGED OffReview
  \/ handleOpenEdit /\ UNCHANGED OffReview
  \/ CancelDelete /\ UNCHANGED OffReview
  \/ CancelPost /\ UNCHANGED OffReview
  \/ CloseEdit /\ UNCHANGED OffReview
  \/ ConfirmDelete /\ UNCHANGED OffReview
  \/ \E ok \in BOOLEAN : DeleteSettles(ok) /\ UNCHANGED OffReview
  \/ ConfirmPost /\ UNCHANGED OffReview
  \/ \E ok \in BOOLEAN : PostSettles(ok) /\ UNCHANGED OffReview
  \/ FetchSettles /\ UNCHANGED OffReview

SpecReview == InitReview /\ [][NextReview]_vars

----------------------------------------------------------------------------
\* Properties of the testimonials page.

\* The entries of the loaded list that carry the id of the selected review.
SelectedEntries(d) ==
  {k \in 1..Len(Reviews(d)) :
     getReviewId(Reviews(d)[k]) = getReviewId(d.selectedReview)}

\* C23: currentPage stays within 1..totalPages, totalPages being
\* ceil(total / 9) or 1 when nothing is stored, after any sequence of page
\* clicks, deletions and refetches.  The page is judged when its list is
\* loaded and no fetch is under way.
C23_PageInRange ==
  (~IsLoading(review) /\ ~review.isFetching)
  => /\ 1 <= review.currentPage
     /\ review.currentPage <= TotalPages(review)

\* C24: confirming the post dialog for a testimonial that is already
\* published, in the store and in the list the page has loaded, sends no
\* update request.
C24_AlreadyPublished ==
  /\ HasSelection(review)
  /\ review.stored[getReviewId(review.selectedReview)] = "published"
  /\ \E k \in SelectedEntries(review) :
       Reviews(review)[k].status = "published"
C24_Step ==
  (C24_AlreadyPublished /\ review.posting = 0) => review'.posting = 0
C24_NoRequestWhenPublished == [][C24_Step]_vars

\* C25: after the effects have run the selected review is none or one of
\* the items of the loaded list; the selection is cleared by a refetch that
\* no longer contains its id, by every page change and by a successful
\* delete; and Delete, Post and Edit are offered only while a testimonial
\* with a non-empty id is selected.
C25_SelectedIsLoaded ==
  review.selectedReview = NoReview \/ SelectedEntries(review) # {}
C25_Cleared ==
  (\/ review'.currentPage # review.currentPage
   \/ Deleted(review') # Deleted(review)
   \/ (/\ review.isFetching /\ ~review'.isFetching
       /\ \A k \in 1..Len(Reviews(review')) :
            getReviewId(Reviews(review')[k])
              # getReviewId(review.selectedReview)))
  => review'.selectedReview = NoReview
C25_Offered ==
  (\/ review'.isDeleteDialogOpen /\ ~review.isDeleteDialogOpen
   \/ review'.isPostDialogOpen /\ ~review.isPostDialogOpen
   \/ review'.isEditDialogOpen /\ ~review.isEditDialogOpen)
  => /\ review.selectedReview # NoReview
     /\ getReviewId(review.selectedReview) # 0
     /\ SelectedEntries(review) # {}
C25_SelectionFollowsList ==
  [][C25_Cleared /\ C25_Offered]_vars /\ []C25_SelectedIsLoaded

\* A testimonial was deleted, the list was fetched again, and the post
\* dialog is open on a selected testimonial of the first page.
C25_Witness ==
  /\ Deleted(review) # {}
  /\ ~review.isFetching /\ ~IsLoading(review)
  /\ review.currentPage = 1
  /\ HasSelection(review)
  /\ review.isPostDialogOpen

----------------------------------------------------------------------------
\* The revenue page (src/app/admin/revenue/page.tsx): the purchases are
\* loaded in one query and searched and paged in the browser.  React runs
\* the effects of a render after it is painted and before the next event
\* is handled: effectsPending says that a render's effects are still due.

\* Largest number of purchases the query returns.
MaxPurchases == 17

\* const pageSize = 8 of this page.
RevenuePageSize == 8

\* String.prototype.trim
RECURSIVE trimStart(_)
trimStart(t) ==
  IF t # << >> /\ Head(t) = " " THEN trimStart(Tail(t)) ELSE t
RECURSIVE trimEnd(_)
trimEnd(t) ==
  IF t # << >> /\ t[Len(t)] = " "
  THEN trimEnd(SubSeq(t, 1, Len(t) - 1)) ELSE t
trim(t) == trimEnd(trimStart(t))

\* Array.prototype.slice(from, to) with 0 <= from <= to.
slice(a, from, to) ==
  IF from >= Len(a) THEN << >>
  ELSE SubSeq(a, from + 1, IF to < Len(a) THEN to ELSE Len(a))

\* The purchases the server lists when it stores n of them.
Purchase(i) ==
  [id |-> i,
   name |-> CASE i % 3 = 0 -> <<"A", "b">> [] i % 3 = 1 -> <<"a">>
              [] OTHER -> << >>,
   email |-> IF i % 3 = 2 THEN <<"b", "@">> ELSE <<"c", "@">>]
RECURSIVE PurchaseList(_)
PurchaseList(n) ==
  IF n = 0 THEN << >> ELSE Append(PurchaseList(n - 1), Purchase(n))

\* What the administrator types into the search box.
SearchTerms == {<< >>, <<"a">>, <<"B">>, <<" ", "a", "b", " ">>, <<"z">>}

\* The predicate of the filter, lines 114-121.
MatchesTerm(q, term) ==
  \/ includes(toLowerCase(q.name), term)
  \/ includes(toLowerCase(q.email), term)

\* purchases.filter(...) of line 114.
RECURSIVE filterPurchases(_, _)
filterPurchases(a, term) ==
  IF a = << >> THEN << >>
  ELSE (IF MatchesTerm(Head(a), term) THEN <<Head(a)>> ELSE << >>)
         \o filterPurchases(Tail(a), term)

\* Lines 111-122.
FilteredPurchases(d) ==
  LET term == toLowerCase(trim(d.searchTerm))
  IN IF term = << >> THEN d.purchases
     ELSE filterPurchases(d.purchases, term)

\* Lines 128-130.
TotalFiltered(d) == Len(FilteredPurchases(d))
RevenueTotalPages(d) ==
  LET ceil == (TotalFiltered(d) + RevenuePageSize - 1) \div RevenuePageSize
  IN IF ceil > 1 THEN ceil ELSE 1

\* Variant of line 130 that uses currentPage as it is.
SafePage_Unclamped(d) == d.currentPage

SafePage(d) ==
  IF d.currentPage < RevenueTotalPages(d) THEN d.currentPage
  ELSE RevenueTotalPages(d)

\* Lines 138-141.
PaginatedPurchases(d) ==
  LET start == (SafePage(d) - 1) * RevenuePageSize
  IN slice(FilteredPurchases(d), start, start + RevenuePageSize)

\* A state change renders the page, and the render's effects become due.
Render(d) == [d EXCEPT !.effectsPending = TRUE]

\* The effects of lines 124-126 and 132-136, run with the values of the
\* render they belong to; the later setCurrentPage wins.  A change of
\* currentPage renders again.
RunRevenueEffects ==
  /\ revenue.effectsPending
  /\ LET reset == IF revenue.searchTermChanged THEN 1
                  ELSE revenue.currentPage
         page == IF revenue.currentPage > RevenueTotalPages(revenue)
                 THEN RevenueTotalPages(revenue) ELSE reset
     IN revenue' =
          [revenue EXCEPT !.currentPage = page,
                          !.searchTermChanged = FALSE,
                          !.effectsPending = (page # revenue.currentPage)]

\* The purchases query settles, or refetches, with n purchases.
PurchasesLoaded(n) ==
  /\ ~revenue.effectsPending
  /\ revenue.isPurchasesLoading \/ Len(revenue.purchases) # n
  /\ revenue' = Render([revenue EXCEPT !.purchases = PurchaseList(n),
                                       !.isPurchasesLoading = FALSE])

\* onChange of the search box, line 190.
SetSearchTerm(t) ==
  /\ ~revenue.effectsPending
  /\ revenue.searchTerm # t
  /\ revenue' = Render([revenue EXCEPT !.searchTerm = t,
                                       !.searchTermChanged = TRUE])

\* The pager, shown under the condition of line 372.
RevenuePagerShown(d) ==
  ~d.effectsPending /\ ~d.isPurchasesLoading /\ TotalFiltered(d) > 0

\* Lines 378-380.
RevenuePrevious ==
  /\ RevenuePagerShown(revenue)
  /\ SafePage(revenue) # 1
  /\ LET page == IF SafePage(revenue) - 1 > 1 THEN SafePage(revenue) - 1
                 ELSE 1
     IN /\ page # revenue.currentPage
        /\ revenue' = Render([revenue EXCEPT !.currentPage = page])

\* Lines 385-403: the buttons of the pages start..end.
RevenueGoToPage(page) ==
  /\ RevenuePagerShown(revenue)
  /\ LET end == IF RevenueTotalPages(revenue) < SafePage(revenue) + 1
                THEN RevenueTotalPages(revenue)
                ELSE SafePage(revenue) + 1
         start == IF end - 2 > 1 THEN end - 2 ELSE 1
     IN page \in start..end
  /\ page # revenue.currentPage
  /\ revenue' = Render([revenue EXCEPT !.currentPage = page])

\* Lines 406-408.
RevenueNext ==
  /\ RevenuePagerShown(revenue)
  /\ ~(SafePage(revenue) >= RevenueTotalPages(revenue))
  /\ LET page == IF RevenueTotalPages(revenue) < SafePage(revenue) + 1
                 THEN RevenueTotalPages(revenue)
                 ELSE SafePage(revenue) + 1
     IN /\ page # revenue.currentPage
        /\ revenue' = Render([revenue EXCEPT !.currentPage = page])

InitRevenue ==
  /\ GatewayInit /\ hasWindow
  /\ settings = SettingsMounted
  /\ support = SupportMounted
  /\ dashboard = DashboardMounted
  /\ subscriptions = SubscriptionsMounted
  /\ review = ReviewMounted
  /\ revenue = RevenueMounted

\* What a step of the revenue page leaves alone.
OffRevenue == <<gatewayVars, subscriptions, review, dashboard, support, settings>>

NextRevenue ==
  \/ RunRevenueEffects /\ UNCHANGED OffRevenue
  \/ \E n \in 0..MaxPurchases : PurchasesLoaded(n) /\ UNCHANGED OffRevenue
  \/ \E t \in SearchTerms : SetSearchTerm(t) /\ UNCHANGED OffRevenue
  \/ RevenuePrevious /\ UNCHANGED OffRevenue
  \/ \E n \in 1..MaxPurchases : RevenueGoToPage(n) /\ UNCHANGED OffRevenue
  \/ RevenueNext /\ UNCHANGED OffRevenue

\* React always runs the effects of a render.
SpecRevenue ==
  /\ InitRevenue /\ [][NextRevenue]_vars
  /\ WF_vars(RunRevenueEffects /\ UNCHANGED OffRevenue)

\* C26: 1 <= safePage <= totalPages, with totalPages the larger of 1 and
\* ceil(filtered / 8); the rows shown are the filtered purchases at the
\* positions (safePage - 1) * 8 .. safePage * 8 - 1 that exist; and a
\* currentPage above totalPages is clamped to totalPages by the effect that
\* is then due.
C26_Pages ==
  LET n == TotalFiltered(revenue)
  IN IF n = 0 THEN 1
     ELSE CHOOSE k \in 1..n : (k - 1) * 8 < n /\ n <= k * 8
C26_InRange ==
  /\ RevenueTotalPages(revenue) = C26_Pages
  /\ 1 <= SafePage(revenue)
  /\ SafePage(revenue) <= C26_Pages
C26_Rows ==
  LET rows == PaginatedPurchases(revenue)
      all == FilteredPurchases(revenue)
      first == (SafePage(revenue) - 1) * 8
      shown == {i \in first..(SafePage(revenue) * 8 - 1) : i < Len(all)}
  IN /\ Len(rows) = Cardinality(shown)
     /\ \A j \in 1..Len(rows) : rows[j] = all[first + j]
C26_Due ==
  revenue.currentPage > C26_Pages => revenue.effectsPending
C26_Clamped ==
  (revenue.currentPage > C26_Pages) ~> (revenue.currentPage <= C26_Pages)
C26_SafePage == [](C26_InRange /\ C26_Rows /\ C26_Due) /\ C26_Clamped

\* The third page was open when the filtered purchases shrank to two pages:
\* the second page is shown and the clamp is due.
C26_Witness ==
  /\ revenue.currentPage = 3
  /\ RevenueTotalPages(revenue) = 2
  /\ SafePage(revenue) = 2
  /\ Len(PaginatedPurchases(revenue)) > 0

----------------------------------------------------------------------------
\* The dashboard (src/unnamed/part_002, AdminDashboard): the table of
\* recent users is paged by the server, LIMIT users to a page, and the
\* query keeps the data of the previous page while a new page loads.

\* const LIMIT = 8
LIMIT == 8

\* Deletions the administrator has made or has under way in one visit.
MaxUserDeletes == 2

\* The ids of the stored users from number i on, in increasing order.
RECURSIVE UsersFrom(_, _)
UsersFrom(users, i) ==
  IF i > MaxUsers THEN << >>
  ELSE (IF users[i] = "active" THEN <<i>> ELSE << >>)
         \o UsersFrom(users, i + 1)

\* dashboardAPI.getOverview({page, limit: LIMIT}) answered from the store.
\* A page below 1 has no users.
getOverview(d, page) ==
  LET all == UsersFrom(d.users, 1)
  IN [recentUsers |-> IF page < 1 THEN << >>
                      ELSE slice(all, (page - 1) * LIMIT, page * LIMIT),
      totalUsers |-> Len(all),
      totalPages |-> (Len(all) + LIMIT - 1) \div LIMIT]

\* Lines 239-252.
DashTotalPages(d) ==
  IF d.payload.totalPages # 0 THEN d.payload.totalPages
  ELSE IF d.payload.totalUsers # 0
       THEN (d.payload.totalUsers + LIMIT - 1) \div LIMIT
       ELSE 1
canPrev(d) == d.page > 1
canNext(d) == d.page < DashTotalPages(d)

\* setPage: the page is part of the query key, so the new page is fetched.
setPage(d, p) == [d EXCEPT !.page = p, !.isFetching = TRUE]

\* The query settles with the current page of the store.
OverviewSettles ==
  /\ dashboard.isFetching
  /\ dashboard' =
       [dashboard EXCEPT !.payload = getOverview(dashboard, dashboard.page),
                         !.isLoading = FALSE,
                         !.isFetching = FALSE]

\* Lines 556-562 and 577-583.
DashPrevious ==
  /\ ~dashboard.isDeleteDialogOpen
  /\ canPrev(dashboard)
  /\ dashboard' = setPage(dashboard, dashboard.page - 1)

DashNext ==
  /\ ~dashboard.isDeleteDialogOpen
  /\ canNext(dashboard)
  /\ dashboard' = setPage(dashboard, dashboard.page + 1)

\* The Delete button of row k, lines 506-512.
ClickDeleteUser(k) ==
  /\ ~dashboard.isDeleteDialogOpen
  /\ k \in 1..Len(dashboard.payload.recentUsers)
  /\ dashboard' =
       [dashboard EXCEPT !.selectedUserId = dashboard.payload.recentUsers[k],
                         !.isDeleteDialogOpen = TRUE]

\* Cancel, or onOpenChange(false), of the dialog.
DashCancelDelete ==
  /\ dashboard.isDeleteDialogOpen
  /\ dashboard' = [dashboard EXCEPT !.isDeleteDialogOpen = FALSE]

\* The users deleted since the page mounted.
UsersDeleted(d) == {i \in 1..MaxUsers : d.users[i] = "deleted"}

\* handleDeleteUser up to its await, lines 255-258.  The handler keeps the
\* recentUsers and the page of the render in which it was clicked.
handleDeleteUser ==
  /\ dashboard.isDeleteDialogOpen
  /\ dashboard.selectedUserId # 0
  /\ Cardinality(UsersDeleted(dashboard))
       + Cardinality(dashboard.deleting) < MaxUserDeletes
  /\ dashboard' =
       [dashboard EXCEPT
          !.deleting = @ \cup
             {[id |-> dashboard.selectedUserId,
               rows |-> Len(dashboard.payload.recentUsers),
               page |-> dashboard.page]}]

\* userAPI.deleteUser settles for the request q, lines 258-270.  The server
\* deletes only a user it still stores.
DeleteUserSettles(q, ok) ==
  /\ q \in dashboard.deleting
  /\ ok => dashboard.users[q.id] = "active"
  /\ LET d1 == [dashboard EXCEPT !.deleting = @ \ {q}]
         d2 == [d1 EXCEPT !.users[q.id] = "deleted",
                          !.isDeleteDialogOpen = FALSE]
     IN dashboard' =
          IF ~ok THEN d1
          ELSE IF q.rows = 1 /\ q.page > 1 THEN setPage(d2, d2.page - 1)
          ELSE [d2 EXCEPT !.isFetching = TRUE]

\* The dashboard mounts over a store of n users.
InitDashboard ==
  /\ GatewayInit /\ hasWindow
  /\ settings = SettingsMounted
  /\ support = SupportMounted
  /\ subscriptions = SubscriptionsMounted
  /\ review = ReviewMounted
  /\ revenue = RevenueMounted
  /\ \E n \in 0..MaxUsers :
       dashboard =
         [DashboardMounted EXCEPT
            !.users = [i \in 1..MaxUsers |->
                         IF i <= n THEN "active" ELSE "absent"]]

\* What a step of the dashboard leaves alone.
OffDashboard == <<gatewayVars, subscriptions, review, revenue, support, settings>>

NextDashboard ==
  \/ OverviewSettles /\ UNCHANGED OffDashboard
  \/ DashPrevious /\ UNCHANGED OffDashboard
  \/ DashNext /\ UNCHANGED OffDashboard
  \/ \E k \in 1..LIMIT : ClickDeleteUser(k) /\ UNCHANGED OffDashboard
  \/ DashCancelDelete /\ UNCHANGED OffDashboard
  \/ handleDeleteUser /\ UNCHANGED OffDashboard
  \/ \E q \in dashboard.deleting, ok \in BOOLEAN :
       DeleteUserSettles(q, ok) /\ UNCHANGED OffDashboard

SpecDashboard == InitDashboard /\ [][NextDashboard]_vars

\* A user was deleted in this step.
UserDeleted(q) ==
  /\ q \in dashboard.deleting
  /\ dashboard.users[q.id] = "active"
  /\ dashboard'.users[q.id] = "deleted"

\* C27: a successful deletion made from the only row of a page > 1 steps
\* back one page instead of refetching, every other successful deletion
\* refetches the same page, and 1 <= page <= totalPages after any sequence
\* of Previous, Next and delete actions: whenever the page's data is loaded
\* and nothing is in flight.
C27_DeleteStep ==
  \A q \in dashboard.deleting :
    UserDeleted(q) =>
      IF q.rows = 1 /\ q.page > 1
      THEN dashboard'.page = dashboard.page - 1
      ELSE dashboard'.page = dashboard.page /\ dashboard'.isFetching
C27_PageInRange ==
  (/\ ~dashboard.isLoading /\ ~dashboard.isFetching
   /\ dashboard.deleting = {})
  => /\ 1 <= dashboard.page
     /\ dashboard.page <= DashTotalPages(dashboard)
C27_PageStaysInRange == [][C27_DeleteStep]_vars /\ []C27_PageInRange

----------------------------------------------------------------------------
\* The support page (src/unnamed/part_001, SupportPage).  The server
\* stores the tickets 1..stored and lists the newest first, 20 to a page;
\* the tickets with an odd number are open.  The tickets query keeps the
\* data of the previous key while a new page or filter loads.

\* Largest number of tickets the server stores.
MaxTickets == 22

\* The page size the page asks for, listTickets(currentPage, 20, ...).
TicketLimit == 20

\* The tickets n, n - 1, .., 1 that pass the status filter.
RECURSIVE TicketsDown(_, _)
TicketsDown(n, status) ==
  IF n = 0 THEN << >>
  ELSE (IF status = "all" \/ n % 2 = 1
        THEN <<[_id |-> n, status |-> IF n % 2 = 1 THEN "open"
                                      ELSE "closed"]>>
        ELSE << >>) \o TicketsDown(n - 1, status)

\* supportAPI.listTickets(page, 20, {status}) answered from the store.
listTickets(d, page, status) ==
  LET all == TicketsDown(d.stored, status)
  IN [items |-> slice(all, (page - 1) * TicketLimit, page * TicketLimit),
      total |-> Len(all),
      limit |-> TicketLimit]

\* Lines 106-109.
Tickets(d) == d.ticketsPayload.items
TotalTickets(d) == d.ticketsPayload.total
SupportPageSize(d) ==
  IF d.ticketsPayload.limit # 0 THEN d.ticketsPayload.limit ELSE 20

\* Variant of the selection effect that picks the first ticket only when
\* nothing is selected.
SelectionEffect_NoFallback(d) ==
  IF Len(Tickets(d)) = 0 THEN 0
  ELSE IF d.selectedTicketId = 0 THEN Tickets(d)[1]._id
  ELSE d.selectedTicketId

\* The selection effect, lines 111-119: the selectedTicketId it leaves.
SelectionEffect(d) ==
  IF Len(Tickets(d)) = 0 THEN 0
  ELSE IF \/ d.selectedTicketId = 0
          \/ ~\E k \in 1..Len(Tickets(d)) :
                Tickets(d)[k]._id = d.selectedTicketId
       THEN Tickets(d)[1]._id
       ELSE d.selectedTicketId

\* A change of the query key (page or filter) starts a fetch; the page is
\* rendered and the render's effects become due.
SupportRender(d, keyChanged) ==
  [d EXCEPT !.effectsPending = TRUE,
            !.isFetching = @ \/ keyChanged]

\* The effects of lines 83-85 and 111-119, run with the values of the
\* render they belong to.
RunSupportEffects ==
  /\ support.effectsPending
  /\ LET page == IF support.filterChanged THEN 1 ELSE support.currentPage
         sel == SelectionEffect(support)
         changed == page # support.currentPage
                      \/ sel # support.selectedTicketId
     IN support' =
          [support EXCEPT
             !.currentPage = page,
             !.selectedTicketId = sel,
             !.filterChanged = FALSE,
             !.isFetching = @ \/ page # support.currentPage,
             !.effectsPending = changed]

\* The tickets query settles with what the server stores now.
TicketsSettle ==
  /\ ~support.effectsPending
  /\ support.isFetching
  /\ support' =
       SupportRender(
         [support EXCEPT
            !.ticketsPayload =
               listTickets(support, support.currentPage,
                           support.statusFilter),
            !.isTicketsLoading = FALSE,
            !.isFetching = FALSE], FALSE)

\* A user opens a new ticket, and the page refetches its list
\* (invalidateQueries, window focus).
TicketArrives ==
  /\ ~support.effectsPending
  /\ support.stored < MaxTickets
  /\ support' = [support EXCEPT !.stored = @ + 1, !.isFetching = TRUE]

\* A click on ticket k of the list, line 238.
SelectTicket(k) ==
  /\ ~support.effectsPending
  /\ k \in 1..Len(Tickets(support))
  /\ Tickets(support)[k]._id # support.selectedTicketId
  /\ support' =
       SupportRender(
         [support EXCEPT !.selectedTicketId = Tickets(support)[k]._id],
         FALSE)

\* onChange of the status select, line 198.
SetStatusFilter(f) ==
  /\ ~support.effectsPending
  /\ f # support.statusFilter
  /\ support' =
       SupportRender([support EXCEPT !.statusFilter = f,
                                     !.filterChanged = TRUE], TRUE)

\* The pager, lines 397-417.
SupportPagerShown(d) ==
  /\ ~d.effectsPending /\ ~d.isTicketsLoading
  /\ TotalTickets(d) > SupportPageSize(d)

SupportPrevious ==
  /\ SupportPagerShown(support)
  /\ support.currentPage # 1
  /\ support' =
       SupportRender([support EXCEPT !.currentPage = @ - 1], TRUE)

SupportNext ==
  /\ SupportPagerShown(support)
  /\ ~(support.currentPage * SupportPageSize(support)
         >= TotalTickets(support))
  /\ support' =
       SupportRender([support EXCEPT !.currentPage = @ + 1], TRUE)

InitSupport ==
  /\ GatewayInit /\ hasWindow
  /\ settings = SettingsMounted
  /\ subscriptions = SubscriptionsMounted
  /\ review = ReviewMounted
  /\ revenue = RevenueMounted
  /\ dashboard = DashboardMounted
  /\ \E n \in 0..MaxTickets : support = [SupportMounted EXCEPT !.stored = n]

\* What a step of the support page leaves alone.
OffSupport == <<gatewayVars, subscriptions, review, revenue, dashboard, settings>>

NextSupport ==
  \/ RunSupportEffects /\ UNCHANGED OffSupport
  \/ TicketsSettle /\ UNCHANGED OffSupport
  \/ TicketArrives /\ UNCHANGED OffSupport
  \/ \E k \in 1..TicketLimit : SelectTicket(k) /\ UNCHANGED OffSupport
  \/ \E f \in {"all", "open"} : SetStatusFilter(f) /\ UNCHANGED OffSupport
  \/ SupportPrevious /\ UNCHANGED OffSupport
  \/ SupportNext /\ UNCHANGED OffSupport

SpecSupport == InitSupport /\ [][NextSupport]_vars

\* C28: after the selection effect has run, selectedTicketId is null when
\* the ticket list is empty and otherwise an id in the list; the effect
\* keeps a selection that is in the list and falls back to the first
\* ticket's id when the previous selection is absent.
C28_TicketIds ==
  {Tickets(support)[k]._id : k \in 1..Len(Tickets(support))}
C28_Selected ==
  ~support.effectsPending
  => IF Tickets(support) = << >> THEN support.selectedTicketId = 0
     ELSE support.selectedTicketId \in C28_TicketIds
C28_EffectStep ==
  support.effectsPending
  => support'.selectedTicketId =
       IF Tickets(support) = << >> THEN 0
       ELSE IF support.selectedTicketId \in C28_TicketIds
            THEN support.selectedTicketId
            ELSE Head(Tickets(support))._id
C28_SelectionInList == [][C28_EffectStep]_vars /\ []C28_Selected

\* On the second page, with a ticket of the first page selected before, the
\* effect has selected the first ticket of the second page.
C28_Witness ==
  /\ ~support.effectsPending /\ ~support.isFetching
  /\ support.currentPage = 2
  /\ Len(Tickets(support)) > 1
  /\ support.selectedTicketId = Head(Tickets(support))._id

----------------------------------------------------------------------------
\* The change-password dialog of the settings page
\* (src/app/admin/settings/page.tsx).  A handler works with the state of
\* the render in which it was invoked: the request in flight keeps the
\* isChangingPassword its handler saw.

\* What the administrator types into a password field.
Passwords ==
  {<< >>, <<"a", "b", "c">>, <<"s", "e", "c", "r", "e", "t">>,
   <<"s", "e", "c", "r", "e", "t", "2">>}

PasswordFields == {"currentPassword", "newPassword", "confirmPassword"}

\* Variant of closePasswordModal that tests the isChangingPassword of the
\* moment it is called.
ClosePasswordModal_CurrentState(d, busy) ==
  IF d.isChangingPassword THEN d
  ELSE [d EXCEPT !.isPasswordModalOpen = FALSE,
                 !.passwordForm = EmptyPasswordForm]

\* closePasswordModal, lines 686-697, of a render whose isChangingPassword
\* was busy.
ClosePasswordModal(d, busy) ==
  IF busy THEN d
  ELSE [d EXCEPT !.isPasswordModalOpen = FALSE,
                 !.passwordForm = EmptyPasswordForm]

\* openPasswordModal, lines 674-684.
OpenPasswordModal ==
  /\ ~settings.isPasswordModalOpen
  /\ settings' = [settings EXCEPT !.passwordForm = EmptyPasswordForm,
                                  !.isPasswordModalOpen = TRUE]

\* handlePasswordInputChange, lines 699-702; the inputs are disabled while
\* isChangingPassword.
PasswordInputChange(name, value) ==
  /\ settings.isPasswordModalOpen /\ ~settings.isChangingPassword
  /\ settings.passwordForm[name] # value
  /\ settings' = [settings EXCEPT !.passwordForm[name] = value]

\* The Cancel button, lines 1107-1113, disabled while isChangingPassword.
CancelPasswordModal ==
  /\ settings.isPasswordModalOpen /\ ~settings.isChangingPassword
  /\ settings' = ClosePasswordModal(settings, settings.isChangingPassword)

\* onOpenChange(false) of the dialog (Escape, a click outside), lines
\* 981-993.
DismissPasswordModal ==
  /\ settings.isPasswordModalOpen
  /\ settings' =
       IF settings.isChangingPassword THEN settings
       ELSE [settings EXCEPT !.isPasswordModalOpen = FALSE,
                             !.passwordForm = EmptyPasswordForm]

\* handleChangePassword up to its await, lines 704-726; the submit button
\* is disabled while isChangingPassword.
SubmitPassword ==
  /\ settings.isPasswordModalOpen /\ ~settings.isChangingPassword
  /\ LET f == settings.passwordForm
     IN settings' =
          IF \/ f.currentPassword = << >> \/ f.newPassword = << >>
             \/ f.confirmPassword = << >>
          THEN [settings EXCEPT !.toast = "Please fill all password fields"]
          ELSE IF Len(f.newPassword) < 6
          THEN [settings EXCEPT
                  !.toast = "New password must be at least 6 characters"]
          ELSE IF f.newPassword # f.confirmPassword
          THEN [settings EXCEPT
                  !.toast = "New password and confirm password do not match"]
          ELSE [settings EXCEPT
                  !.isChangingPassword = TRUE,
                  !.toast = "none",
                  !.request =
                     [sent |-> TRUE,
                      isChangingPassword |-> settings.isChangingPassword]]

\* authAPI.changePassword settles, lines 727-741.
ChangePasswordSettles(ok) ==
  /\ settings.request.sent
  /\ LET d1 == [settings EXCEPT !.request = NoRequest]
         d2 == IF ok
               THEN ClosePasswordModal(
                      [d1 EXCEPT !.toast = "Password changed successfully"],
                      settings.request.isChangingPassword)
               ELSE [d1 EXCEPT !.toast = "Failed to change password"]
     IN settings' = [d2 EXCEPT !.isChangingPassword = FALSE]

InitSettings ==
  /\ GatewayInit /\ hasWindow
  /\ subscriptions = SubscriptionsMounted
  /\ review = ReviewMounted
  /\ revenue = RevenueMounted
  /\ dashboard = DashboardMounted
  /\ support = SupportMounted
  /\ settings = SettingsMounted

\* What a step of the settings page leaves alone.
OffSettings ==
  <<gatewayVars, subscriptions, review, revenue, dashboard, support>>

NextSettings ==
  \/ OpenPasswordModal /\ UNCHANGED OffSettings
  \/ \E name \in PasswordFields, value \in Passwords :
       PasswordInputChange(name, value) /\ UNCHANGED OffSettings
  \/ CancelPasswordModal /\ UNCHANGED OffSettings
  \/ DismissPasswordModal /\ UNCHANGED OffSettings
  \/ SubmitPassword /\ UNCHANGED OffSettings
  \/ \E ok \in BOOLEAN : ChangePasswordSettles(ok) /\ UNCHANGED OffSettings

SpecSettings == InitSettings /\ [][NextSettings]_vars

\* C29: the change-password dialog cannot be closed while a change is in
\* flight; after a successful change the dialog is closed and the three
\* password fields are cleared; after a failed change the dialog stays open
\* and the busy flag is reset.
C29_OpenInFlight ==
  settings.request.sent
  => settings.isPasswordModalOpen /\ settings.isChangingPassword
C29_Step ==
  /\ (settings.request.sent /\ settings'.request.sent)
       => settings' = settings
  /\ (settings.request.sent /\ ~settings'.request.sent)
       => /\ ~settings'.isChangingPassword
          /\ settings'.toast \in {"Password changed successfully",
                                  "Failed to change password"}
          /\ settings'.toast = "Password changed successfully"
               => /\ ~settings'.isPasswordModalOpen
                  /\ settings'.passwordForm = EmptyPasswordForm
          /\ settings'.toast = "Failed to change password"
               => /\ settings'.isPasswordModalOpen
                  /\ settings'.passwordForm = settings.passwordForm
C29_PasswordDialog == [][C29_Step]_vars /\ []C29_OpenInFlight

\* A change has succeeded: the dialog is closed, the form is empty and the
\* busy flag is reset.
C29_Witness ==
  /\ settings.toast = "Password changed successfully"
  /\ ~settings.isPasswordModalOpen
  /\ ~settings.isChangingPassword
  /\ settings.passwordForm = EmptyPasswordForm

====
